---- MODULE Spec2Model ----
(***************************************************************************)
(* WordCity (scobb99/Word_City): the word/resource economy, the placement  *)
(* rules and the periodic city tick of the "v7" application                *)
(* (src/unnamed/part_002), as a state machine.                             *)
(*                                                                         *)
(* State is the React state of App(): grid, res, rack, letterPool,         *)
(* population, housing, happiness, tier, wonderProgress, dict, msg,        *)
(* selected.  Every handler is one action and runs against the rendered    *)
(* state (one event, then a render).  The check boxes (bridgeMode,         *)
(* removeMode) and the text field (typed) are set freely by the player     *)
(* between two events, so each event draws them as inputs.                 *)
(*                                                                         *)
(* Spec follows the sessions of the application.  GenSpec follows the map  *)
(* generator, generateProceduralTerrain, loop turn by loop turn, with its  *)
(* 32-bit hash and random stream computed as the source computes them.     *)
(* LifeSpec adds the unmounting of App to Spec, BatchSpec the handling of  *)
(* two road-tool events before one render, and EarlySpec follows the map   *)
(* editing of the first iteration of the application                       *)
(* (src/unnamed/part_000).                                                 *)
(***************************************************************************)
EXTENDS Integers, Sequences, FiniteSets, TLC

(***************************************************************************)
(* Bounds of the model.                                                    *)
(***************************************************************************)
\* side of the square map (54 in the source; the rules are per tile)
Size == 3
\* the Refresh button is not pressed on an empty pool once the rack is this long
MaxRack == 9
\* the number of events of a session that are followed
MaxEvents == 4

(***************************************************************************)
(* Program constants.                                                      *)
(***************************************************************************)
DEFAULT_RACK_SIZE == 8
maxLetters == 6
InitialLetterPool == 18
InitialHappiness == 100
BaseHappiness == 50

VOWELS == {"A", "E", "I", "O", "U"}
\* /[JQXZKV]/ of resourceYieldBase and generateBalancedRack
RARES == {"J", "Q", "X", "Z", "K", "V"}
\* /[QXZ]/ of the wonder check in submitWord
WONDER_RARES == {"Q", "X", "Z"}

UpperLetters ==
  {"A","B","C","D","E","F","G","H","I","J","K","L","M",
   "N","O","P","Q","R","S","T","U","V","W","X","Y","Z"}
LowerSeq ==
  <<"a","b","c","d","e","f","g","h","i","j","k","l","m",
    "n","o","p","q","r","s","t","u","v","w","x","y","z">>
UpperSeq ==
  <<"A","B","C","D","E","F","G","H","I","J","K","L","M",
    "N","O","P","Q","R","S","T","U","V","W","X","Y","Z">>

(***************************************************************************)
(* Small helpers of the model.                                             *)
(***************************************************************************)
Min(a, b) == IF a < b THEN a ELSE b
Max(a, b) == IF a > b THEN a ELSE b

RECURSIVE SumOver(_, _)
\* sum of f[i] over the finite set S of elements of DOMAIN f
SumOver(f, S) ==
  IF S = {} THEN 0
  ELSE LET i == CHOOSE j \in S : TRUE IN f[i] + SumOver(f, S \ {i})

\* number of positions of s holding a member of S
CountIn(s, S) == Cardinality({i \in DOMAIN s : s[i] \in S})

(***************************************************************************)
(* Resources.                                                              *)
(***************************************************************************)
ResKeys == {"coin", "lumber", "stone", "knowledge", "magic"}
R(c, l, s, k, m) == [coin |-> c, lumber |-> l, stone |-> s, knowledge |-> k, magic |-> m]
\* a Partial<Resources> with every missing key read as (x||0)
Zero == R(0, 0, 0, 0, 0)

\* variant of canAfford: only the coin is compared
canAffordCoin(r, cost) == r.coin >= cost.coin

canAfford(r, cost) ==
  /\ r.coin >= cost.coin
  /\ r.lumber >= cost.lumber
  /\ r.stone >= cost.stone
  /\ r.knowledge >= cost.knowledge
  /\ r.magic >= cost.magic

addResources(a, b) ==
  R(a.coin + b.coin, a.lumber + b.lumber, a.stone + b.stone,
    a.knowledge + b.knowledge, a.magic + b.magic)

pay(r, cost) ==
  R(r.coin - cost.coin, r.lumber - cost.lumber, r.stone - cost.stone,
    r.knowledge - cost.knowledge, r.magic - cost.magic)

ROAD_BASE_COST == R(1, 1, 1, 0, 0)
BRIDGE_COST == R(2, 1, 3, 0, 0)
\* variant of BIOME_ROAD_MOD: marsh charges one stone like hill
BIOME_ROAD_MOD_Marsh1 ==
  [meadow |-> Zero, forest |-> R(0, 1, 0, 0, 0), hill |-> R(0, 0, 1, 0, 0),
   marsh |-> R(0, 0, 1, 0, 0), thicket |-> R(0, 0, 99, 0, 0)]

BIOME_ROAD_MOD ==
  [meadow |-> Zero, forest |-> R(0, 1, 0, 0, 0), hill |-> R(0, 0, 1, 0, 0),
   marsh |-> R(0, 0, 2, 0, 0), thicket |-> R(0, 0, 99, 0, 0)]
\* variant of ROAD_REFUND: a removed road returns more coin than it cost
ROAD_REFUND_Generous == R(2, 1, 0, 0, 0)
ROAD_REFUND == R(1, 1, 0, 0, 0)
BRIDGE_REFUND == R(1, 0, 1, 0, 0)

\* placeRoadOrBridge calls addCosts, which no source file defines; it is
\* taken from the specification's wording: "road cost additionally modified
\* per-biome, e.g. forest adds lumber, marsh adds stone".
addCosts(a, b) == addResources(a, b)

(***************************************************************************)
(* Letters, words and the rack.                                            *)
(***************************************************************************)
\* String.prototype.toUpperCase on one character
LowerToUpper ==
  [c \in {LowerSeq[i] : i \in DOMAIN LowerSeq} |->
     UpperSeq[CHOOSE i \in DOMAIN LowerSeq : LowerSeq[i] = c]]

Upper(c) == IF c \in DOMAIN LowerToUpper THEN LowerToUpper[c] ELSE c

\* raw.toUpperCase().replace(/[^A-Z]/g, "")
Normalize(raw) ==
  SelectSeq([i \in DOMAIN raw |-> Upper(raw[i])], LAMBDA c : c \in UpperLetters)

\* countChars: the characters of str, each with its number of occurrences
countChars(str) ==
  [k \in {str[i] : i \in DOMAIN str} |-> Cardinality({i \in DOMAIN str : str[i] = k})]

\* (m[k] || 0)
CountOf(m, k) == IF k \in DOMAIN m THEN m[k] ELSE 0

\* variant of canFormFromRack: one tile of the rack serves every occurrence
\* of its letter in the word
canFormIgnoringCounts(word, rk) ==
  \A i \in DOMAIN word : \E j \in DOMAIN rk : rk[j] = word[i]

canFormFromRack(word, rk) ==
  LET need == countChars(word)
      have == countChars(rk)
  IN \A k \in DOMAIN need : CountOf(have, k) >= need[k]

RECURSIVE ConsumeLetters(_, _)
\* for (const ch of rack) { if (used[ch]) used[ch]--; else nextRack.push(ch); }
ConsumeLetters(rk, used) ==
  IF rk = <<>> THEN <<>>
  ELSE LET ch == Head(rk) IN
       IF CountOf(used, ch) > 0
       THEN ConsumeLetters(Tail(rk), [used EXCEPT ![ch] = @ - 1])
       ELSE <<ch>> \o ConsumeLetters(Tail(rk), used)

RECURSIVE RefillPushes(_, _)
\* while (toFill-- > 0 && toFill < take+1) nextRack.push(...): the number of pushes
RefillPushes(toFill, take) ==
  IF toFill > 0 /\ toFill - 1 < take + 1
  THEN 1 + RefillPushes(toFill - 1, take)
  ELSE 0

\* The letters Math.random may make weightedRandomLetter return, cut to a
\* small set: LETTER_POOL weighs all 26 letters.
DrawLetters == {"E", "K"}
\* "AEIOU"[Math.floor(Math.random()*5)], cut to one outcome
VowelDraws == {"E"}
\* "JQXZKV"[Math.floor(Math.random()*6)], cut to one outcome
RareDraws == {"Z"}

weightedRandomLetter == DrawLetters

\* the sequences of n letters that n calls of weightedRandomLetter may give,
\* cut to the runs of one letter
Draws(n) == {[i \in 1..n |-> l] : l \in weightedRandomLetter}

RECURSIVE FixVowels(_, _, _)
\* for (i=0; i<rack.length && vowels(rack)<2; i++) rack[i] = <a vowel>
FixVowels(rk, i, v) ==
  IF i <= Len(rk) /\ CountIn(rk, VOWELS) < 2
  THEN FixVowels([rk EXCEPT ![i] = v], i + 1, v)
  ELSE rk

\* if (!/[JQXZKV]/.test(rack.join(""))) rack[0] = <a rare letter>
\* (an assignment to index 0 of an empty array makes it one letter long)
FixRare(rk, q) ==
  IF CountIn(rk, RARES) > 0 THEN rk
  ELSE IF rk = <<>> THEN <<q>> ELSE [rk EXCEPT ![1] = q]

\* the racks generateBalancedRack(size) may return
generateBalancedRack(size) ==
  {FixRare(FixVowels(d, 1, v), q) : d \in Draws(size), v \in VowelDraws, q \in RareDraws}

(***************************************************************************)
(* The building catalog.  A missing optional field reads as 0 (b.x||0); a  *)
(* building without an explicit shape has shape <<>>.                      *)
(***************************************************************************)
B(t, w, h, shape, cost, happy, upkeep, housing, growth) ==
  [tier |-> t, w |-> w, h |-> h, shape |-> shape, cost |-> cost,
   happiness |-> happy, upkeep |-> upkeep, housing |-> housing, growth |-> growth]

CATALOG ==
  [cottage     |-> B(1, 1, 1, <<>>, R(20, 15, 0, 0, 0), 1, Zero, 3, 0),
   herbgarden  |-> B(1, 2, 1, <<>>, R(10, 10, 0, 0, 0), 2, Zero, 0, 0),
   workshop    |-> B(1, 2, 2, <<>>, R(30, 10, 10, 0, 0), 0, R(1, 0, 0, 0, 0), 1, 0),
   sawmill     |-> B(1, 2, 2, <<>>, R(35, 20, 5, 0, 0), 0, R(1, 0, 0, 0, 0), 0, 0),
   quarry      |-> B(1, 2, 2, <<>>, R(35, 5, 20, 0, 0), -2, R(1, 0, 0, 0, 0), 0, 0),
   market      |-> B(2, 3, 2, <<>>, R(80, 0, 20, 0, 0), 2, Zero, 0, 1),
   library     |-> B(2, 2, 2, <<>>, R(60, 25, 10, 10, 0), 1, Zero, 0, 0),
   pier        |-> B(2, 2, 1, <<>>, R(55, 25, 5, 0, 0), 0, Zero, 0, 0),
   university  |-> B(3, 3, 3, <<>>, R(140, 40, 20, 40, 0), 2, R(1, 0, 0, 0, 0), 5, 0),
   wizardarium |-> B(3, 2, 3, <<>>, R(120, 30, 30, 25, 10), 2, Zero, 0, 0),
   skyport     |-> B(3, 3, 2, << <<0,0>>, <<1,0>>, <<2,0>>, <<0,1>>, <<2,1>> >>,
                     R(160, 35, 40, 10, 15), 0, Zero, 0, 0)]

BuildingIds == DOMAIN CATALOG

\* Math.ceil(n / d) for n >= 0, d > 0
CeilDiv(n, d) == (n + d - 1) \div d

\* variant of scaledCost: the price is charged for every cell of the footprint
scaledCostPerCell(b, level) ==
  LET c == CATALOG[b].cost
      n == IF CATALOG[b].shape # <<>> THEN Len(CATALOG[b].shape) ELSE CATALOG[b].w * CATALOG[b].h
  IN R(c.coin * n, c.lumber * n, c.stone * n, c.knowledge * n, c.magic * n)

\* scaledCost(b, level): scale = 1 + (level-1)*0.6, each entry Math.ceil(cost*scale).
\* Every caller passes level 1 (scale exactly 1).
scaledCost(b, level) ==
  LET c == CATALOG[b].cost
      s10 == 10 + (level - 1) * 6
  IN R(CeilDiv(c.coin * s10, 10), CeilDiv(c.lumber * s10, 10), CeilDiv(c.stone * s10, 10),
       CeilDiv(c.knowledge * s10, 10), CeilDiv(c.magic * s10, 10))

(***************************************************************************)
(* The grid: Size*Size tiles, row-major.                                   *)
(***************************************************************************)
Indices == 0 .. (Size * Size - 1)
Terrains == {"grass", "water", "road", "bridge"}
Biomes == {"meadow", "forest", "hill", "marsh", "thicket"}

\* structure: undefined
NoStructure == [id |-> "none", level |-> 0]
\* structure: { id: b.id, level: 1, icon: b.icon, shape: b.shape }
\* (icon and shape are copies of the catalog entry of id)
Structure(b, level) == [id |-> b, level |-> level]

Tile(t, bio, st) == [terrain |-> t, biome |-> bio, structure |-> st]

idxToXY(idx, size) == [x |-> idx % size, y |-> idx \div size]
xyToIdx(x, y, size) == y * size + x

\* the offsets a building covers: its shape, else the dense w x h rectangle
FootprintPoints(b) ==
  LET c == CATALOG[b] IN
  IF c.shape # <<>> THEN c.shape
  ELSE [i \in 1 .. (c.h * c.w) |-> <<(i - 1) % c.w, (i - 1) \div c.w>>]

\* getFootprint's null
FootprintNull == <<-1>>

\* variant of getFootprint: only the index is kept inside the array, so a
\* footprint runs over the right edge into the next row
getFootprintWrapping(b, startIdx) ==
  LET p == idxToXY(startIdx, Size)
      pts == FootprintPoints(b)
      at(i) == xyToIdx(p.x + pts[i][1], p.y + pts[i][2], Size)
  IN IF \A i \in DOMAIN pts : at(i) \in Indices
     THEN [i \in DOMAIN pts |-> at(i)]
     ELSE FootprintNull

\* getFootprint(b, startIdx): null as soon as one point is off the grid
getFootprint(b, startIdx) ==
  LET p == idxToXY(startIdx, Size)
      pts == FootprintPoints(b)
      inGrid(i) == LET xx == p.x + pts[i][1]
                       yy == p.y + pts[i][2]
                   IN ~(xx < 0 \/ yy < 0 \/ xx >= Size \/ yy >= Size)
  IN IF \A i \in DOMAIN pts : inGrid(i)
     THEN [i \in DOMAIN pts |-> xyToIdx(p.x + pts[i][1], p.y + pts[i][2], Size)]
     ELSE FootprintNull

\* gridHas(ids)
gridHas(g, ids) == \E i \in DOMAIN g : g[i].structure.id \in ids

(***************************************************************************)
(* Word yield.                                                             *)
(***************************************************************************)
\* minLen = tier>=4 ? 5 : tier>=2 ? 4 : 3
MinLen(t) == IF t >= 4 THEN 5 ELSE IF t >= 2 THEN 4 ELSE 3

\* mult = happiness>=80 ? 1.2 : happiness<=20 ? 0.8 : 1.0, in tenths
Mult10(h) == IF h >= 80 THEN 12 ELSE IF h <= 20 THEN 8 ELSE 10

\* Math.floor(n * mult): for the integers n < 40 met here the float product
\* n*1.2 (n*0.8) floors to the same integer as the exact n*12/10 (n*8/10)
FloorMult(n, m10) == (n * m10) \div 10

\* resourceYieldBase(word), with the state it reads (tier, happiness, grid)
resourceYieldBase(word, t, h, g) ==
  LET len == Len(word)
      rares == CountIn(word, RARES)
      vowels == CountIn(word, VOWELS)
      consonants == len - vowels
      mult == Mult10(h)
      base == R(Max(1, len \div 2) + (IF gridHas(g, {"market"}) THEN 2 ELSE 0),
                Max(0, consonants \div 3) + (IF gridHas(g, {"sawmill", "workshop"}) THEN 1 ELSE 0),
                Max(0, (len - vowels) \div 4) + (IF gridHas(g, {"quarry"}) THEN 1 ELSE 0),
                Max(0, vowels \div 2) + (IF gridHas(g, {"library"}) /\ len >= 6 THEN 1 ELSE 0),
                rares + (IF gridHas(g, {"wizardarium"}) THEN 1 ELSE 0))
  IN IF len < MinLen(t) THEN Zero
     ELSE R(FloorMult(base.coin, mult), FloorMult(base.lumber, mult), FloorMult(base.stone, mult),
            FloorMult(base.knowledge, mult), FloorMult(base.magic, mult))

\* /[AEIOU]{2}/.test(word)
HasVowelPair(word) ==
  \E i \in 1 .. (Len(word) - 1) : word[i] \in VOWELS /\ word[i + 1] \in VOWELS

(***************************************************************************)
(* Status messages: the text, what it names, and the yield it prints.      *)
(***************************************************************************)
Msg(text) == [text |-> text, what |-> "", gain |-> Zero]
MsgYield(y) == [text |-> "+c +l +s +k +m", what |-> "", gain |-> y]
MsgBuilt(b) == [text |-> "built", what |-> b, gain |-> Zero]

(***************************************************************************)
(* The dictionary.                                                         *)
(***************************************************************************)
FALLBACK_WORDS ==
  {<<"S","T","O","N","E">>,
   <<"M","A","G","I","C">>,
   <<"C","L","O","U","D">>,
   <<"M","Y","S","T","I","C">>,
   <<"G","A","R","D","E","N">>,
   <<"C","O","T","T","A","G","E">>,
   <<"K","N","I","G","H","T">>,
   <<"R","I","V","E","R">>,
   <<"L","A","N","T","E","R","N">>,
   <<"S","P","E","L","L">>,
   <<"P","O","T","I","O","N">>,
   <<"F","O","R","G","E">>,
   <<"D","R","A","G","O","N">>,
   <<"H","A","R","V","E","S","T">>,
   <<"S","C","H","O","L","A","R">>,
   <<"W","I","S","D","O","M">>,
   <<"P","O","R","T","A","L">>,
   <<"B","A","R","D">>,
   <<"S","C","R","O","L","L">>,
   <<"V","I","L","L","A","G","E">>,
   <<"T","O","W","E","R">>,
   <<"B","R","I","D","G","E">>,
   <<"M","A","R","K","E","T">>,
   <<"L","I","B","R","A","R","Y">>,
   <<"S","T","A","I","R","S">>,
   <<"S","T","A","R","L","I","G","H","T">>,
   <<"S","U","N","B","E","A","M">>,
   <<"Q","U","A","R","T","Z">>,
   <<"A","Z","U","R","E">>,
   <<"E","Q","U","A","T","I","O","N">>,
   <<"Q","U","E","U","E">>,
   <<"W","O","O","D","L","A","N","D">>,
   <<"M","E","A","D","O","W">>,
   <<"H","I","L","L","S","I","D","E">>}

\* What /words-5k.txt may hold once filtered by /^[A-Z]{3,}$/ (a small file).
\* No word of it can be spelt with the letters of DrawLetters and RareDraws
\* alone, so a rack is played out after a few words.
WordsFile ==
  {<<"S","T","O","N","E">>, <<"E","Q","U","A","T","I","O","N">>, <<"T","E","A">>, <<"Z","O","N","E">>}

\* The texts the player submits.
RawInputs ==
  {<<"s","t","o","-","n","e","!">>,
   <<"T","E","A">>,
   <<"Z","O","N","E">>,
   <<"E","Q","U","A","T","I","O","N">>,
   <<"K","N","I","G","H","T">>,
   <<"t"," ","e">>,
   <<"N","O","T","E","S">>,
   <<"Q","U","E","U","E">>}

(***************************************************************************)
(* Maps.  generateProceduralTerrain returns grass and water tiles without  *)
(* structures; water tiles keep biome meadow (patches skip water), a       *)
(* meadow tile beside water is marsh, and forest, hill and thicket patches *)
(* lie anywhere on land.  Its river is at least three rows high, which a   *)
(* map of side Size cannot hold beside land: the maps below keep one row   *)
(* of it, along the last row, with its bank in the row above and meadow    *)
(* (with or without thicket) beyond.                                       *)
(***************************************************************************)
BankBiome(x) == IF x = 0 THEN "marsh" ELSE IF x = 1 THEN "forest" ELSE "hill"

GeneratedMap(withThicket) ==
  [i \in Indices |->
     LET p == idxToXY(i, Size) IN
     IF p.y = Size - 1 THEN Tile("water", "meadow", NoStructure)
     ELSE IF p.y = Size - 2 THEN Tile("grass", BankBiome(p.x), NoStructure)
     ELSE IF withThicket /\ p.x = Size - 1 THEN Tile("grass", "thicket", NoStructure)
     ELSE Tile("grass", "meadow", NoStructure)]

GeneratedMaps == {GeneratedMap(TRUE), GeneratedMap(FALSE)}

\* the map g with roads (bridges over water) laid on the tiles of S
Paved(g, S) ==
  [i \in Indices |->
     IF i \in S
     THEN [g[i] EXCEPT !.terrain = IF g[i].terrain = "water" THEN "bridge" ELSE "road"]
     ELSE g[i]]

\* the map g with a w x h block of roads at the origin, carrying building b
WithBuilding(g, b) ==
  LET fp == getFootprint(b, 0)
      cells == {fp[k] : k \in DOMAIN fp}
  IN [i \in Indices |->
        IF i \in cells THEN Tile("road", g[i].biome, Structure(b, 1)) ELSE g[i]]

(***************************************************************************)
(* City statistics of computeCityStats: one term per tile that carries a   *)
(* structure (grid.forEach).                                               *)
(***************************************************************************)
Built(g) == {i \in DOMAIN g : g[i].structure.id # "none"}

HousingCap(g) == SumOver([i \in DOMAIN g |-> CATALOG[g[i].structure.id].housing], Built(g))
GrowthSum(g) == SumOver([i \in DOMAIN g |-> CATALOG[g[i].structure.id].growth], Built(g))
HappySum(g) == SumOver([i \in DOMAIN g |-> CATALOG[g[i].structure.id].happiness], Built(g))
Uniques(g) == {g[i].structure.id : i \in Built(g)}

\* the upkeep summed by the regen interval callback (coin, lumber and stone are paid)
UpkeepDue(g) ==
  R(SumOver([i \in DOMAIN g |-> CATALOG[g[i].structure.id].upkeep.coin], Built(g)),
    SumOver([i \in DOMAIN g |-> CATALOG[g[i].structure.id].upkeep.lumber], Built(g)),
    SumOver([i \in DOMAIN g |-> CATALOG[g[i].structure.id].upkeep.stone], Built(g)),
    0, 0)

\* happy = 50 + sum - floor(max(0, population - hcap)/10), clamped to 0..100
CityHappiness(g, pop) ==
  LET over == Max(0, pop - HousingCap(g))
      happy == BaseHappiness + HappySum(g) - (over \div 10)
  IN Max(0, Min(100, happy))

\* setPopulation(p => canGrow ? Math.min(hcap, p + Math.max(1, growth)) : p)
GrowPopulation(g, happy, p) ==
  IF happy >= 50 THEN Min(HousingCap(g), p + Max(1, GrowthSum(g))) ELSE p

\* Tier logic (l3Count is the constant 0 in the source)
NewTier(g, pop, wonder) ==
  LET uniqCount == Cardinality(Uniques(g))
      l3Count == 0
      hasWonder == wonder.len8 /\ wonder.rare /\ wonder.vv
      t2 == IF pop >= 50 /\ uniqCount >= 5 THEN 2 ELSE 1
      t3 == IF pop >= 150 /\ l3Count >= 2 THEN 3 ELSE t2
  IN IF pop >= 300 /\ hasWonder THEN 4 ELSE t3

(***************************************************************************)
(* The seeded generator.  A 32-bit unsigned number is the pair <<hi, lo>>  *)
(* of its 16-bit halves, so that no product leaves the range of the        *)
(* integers of the model.                                                  *)
(***************************************************************************)
W(hi, lo) == <<hi, lo>>

RECURSIVE Xor(_, _)
\* a ^ b, for a and b not negative
Xor(a, b) ==
  IF a = 0 THEN b
  ELSE IF b = 0 THEN a
  ELSE ((a + b) % 2) + 2 * Xor(a \div 2, b \div 2)

\* the low 32 bits of a * b (Math.imul(a, b) >>> 0, and (a * b) >>> 0 of a
\* product below 2^53), byte by byte
Mul32(a, b) ==
  LET a0 == a[2] % 256
      a1 == a[2] \div 256
      a2 == a[1] % 256
      a3 == a[1] \div 256
      b0 == b[2] % 256
      b1 == b[2] \div 256
      b2 == b[1] % 256
      b3 == b[1] \div 256
      t0 == a0 * b0
      t1 == a0 * b1 + a1 * b0 + (t0 \div 256)
      t2 == a0 * b2 + a1 * b1 + a2 * b0 + (t1 \div 256)
      t3 == a0 * b3 + a1 * b2 + a2 * b1 + a3 * b0 + (t2 \div 256)
  IN W((t3 % 256) * 256 + (t2 % 256), (t1 % 256) * 256 + (t0 % 256))

\* (a + b) >>> 0
Add32(a, b) ==
  LET lo == a[2] + b[2]
  IN W((a[1] + b[1] + (lo \div 65536)) % 65536, lo % 65536)

\* seed.charCodeAt(i), for the characters of the seeds used
CharCode(c) ==
  CASE c = "-" -> 45
    [] c = "0" -> 48 [] c = "1" -> 49 [] c = "2" -> 50 [] c = "3" -> 51
    [] c = "4" -> 52 [] c = "5" -> 53 [] c = "6" -> 54 [] c = "7" -> 55
    [] c = "8" -> 56 [] c = "9" -> 57

RECURSIVE hashFrom(_, _, _)
\* the loop of hashSeed from character i on: h ^= code; h = Math.imul(h, 16777619)
hashFrom(h, seed, i) ==
  IF i > Len(seed) THEN h
  ELSE hashFrom(Mul32(W(h[1], Xor(h[2], CharCode(seed[i]))), W(256, 403)), seed, i + 1)

\* hashSeed(seed): h starts as 2166136261 = 0x811C9DC5; 16777619 = 0x01000193
hashSeed(seed) == hashFrom(W(33052, 40389), seed, 1)

\* the state after one call of rand(): s = (s * 1664525 + 1013904223) >>> 0
\* (1664525 = 0x0019660D, 1013904223 = 0x3C6EF35F); rand returns s / 2^32
rand(s) == Add32(Mul32(s, W(25, 26125)), W(15470, 62303))

\* Math.floor(rnd() * n) for the value s / 2^32 and a small n >= 0
Scale(s, n) == (s[1] * n + (s[2] * n) \div 65536) \div 65536

\* rnd() < p for the value s / 2^32, k being the largest state with k / 2^32 < p
Below(s, k) == s[1] < k[1] \/ (s[1] = k[1] /\ s[2] <= k[2])

\* the largest states below the probabilities 0.45, 0.08, 0.8 and 0.9
Chance ==
  [river |-> W(29491, 13107), lake |-> W(5242, 57671),
   patch |-> W(52428, 52428), thicket |-> W(58982, 26214)]

\* the generator's working state: the stream s, the number n of rand()
\* calls made, the tiles, whether a stamp left a cell out for lying outside
\* the grid (skipped), and whether a write went outside the grid (oob)
Working(s, tiles) == [s |-> s, n |-> 0, tiles |-> tiles, skipped |-> FALSE, oob |-> FALSE]

\* one call of rnd()
draw(m) == [m EXCEPT !.s = rand(m.s), !.n = m.n + 1]

\* Array(size*size).fill(0).map(() => ({ terrain: 'grass', biome: 'meadow' }))
BlankTiles(size) == [i \in 0 .. (size * size - 1) |-> Tile("grass", "meadow", NoStructure)]

\* variant of inRows: the river writes its rows without looking at the edge
inRowsAny(yy, size) == TRUE

\* yy >= 0 && yy < size
inRows(yy, size) == yy >= 0 /\ yy < size

\* xx >= 0 && yy >= 0 && xx < size && yy < size
inGrid(xx, yy, size) == xx >= 0 /\ yy >= 0 /\ xx < size /\ yy < size

\* the point lies off the grid
OffGrid(p, size) == p[1] \notin 0 .. (size - 1) \/ p[2] \notin 0 .. (size - 1)

\* tiles[xyToIdx(x, y, size)].terrain = 'water' for the points of all that
\* pass the guard
Flood(m, all, guarded, size) ==
  [m EXCEPT
     !.tiles = [i \in DOMAIN m.tiles |->
                  IF \E p \in guarded : xyToIdx(p[1], p[2], size) = i
                  THEN [m.tiles[i] EXCEPT !.terrain = "water"]
                  ELSE m.tiles[i]],
     !.skipped = m.skipped \/ guarded # all,
     !.oob = m.oob \/ \E p \in guarded : OffGrid(p, size)]

\* variant of walk: the river row is not held inside the map
walkFree(y, step, size) == y + step

\* y += step; y = Math.max(1, Math.min(size-2, y))
walk(y, step, size) == Max(1, Min(size - 2, y + step))

\* one turn of the river loop for column x: the river rows, perhaps a lake,
\* then the walk of y
riverColumn(m, x, y, size) ==
  LET m1 == draw(m)
      width == 1 + (IF Below(m1.s, Chance.river) THEN 0 ELSE 1)
      rows == {<<x, y + dy>> : dy \in (-width) .. width}
      m2 == Flood(m1, rows, {p \in rows : inRows(p[2], size)}, size)
      m3 == draw(m2)
      lake == Below(m3.s, Chance.lake)
      m4 == IF lake THEN draw(m3) ELSE m3
      r == 1 + Scale(m4.s, 2)
      square == {<<x + dx, y + dy>> : dx \in (-r) .. r, dy \in (-r) .. r}
      m5 == IF lake
            THEN Flood(m4, square, {p \in square : inGrid(p[1], p[2], size)}, size)
            ELSE m4
      m6 == draw(m5)
      step == Scale(m6.s, 3) - 1
  IN [m |-> m6, y |-> walk(y, step, size)]

RECURSIVE patchCells(_, _, _, _, _, _, _, _)
\* the dx, dy loops of patch from cell k on (dx outer, dy inner)
patchCells(m, k, cx, cy, type, radius, prob, size) ==
  LET side == 2 * radius + 1
      dx == (k \div side) - radius
      dy == (k % side) - radius
      xx == cx + dx
      yy == cy + dy
      ii == xyToIdx(xx, yy, size)
  IN IF k = side * side THEN m
     ELSE IF ~inGrid(xx, yy, size) THEN patchCells(m, k + 1, cx, cy, type, radius, prob, size)
     ELSE IF m.tiles[ii].terrain = "water"
          THEN patchCells(m, k + 1, cx, cy, type, radius, prob, size)
     \* Math.hypot(dx, dy) <= radius && rnd() < prob
     ELSE IF dx * dx + dy * dy <= radius * radius
          THEN LET m1 == draw(m)
                   m2 == IF Below(m1.s, prob)
                         THEN [m1 EXCEPT !.tiles[ii].biome = type,
                                         !.oob = m1.oob \/ OffGrid(<<xx, yy>>, size)]
                         ELSE m1
               IN patchCells(m2, k + 1, cx, cy, type, radius, prob, size)
     ELSE patchCells(m, k + 1, cx, cy, type, radius, prob, size)

\* one attempt of patch(type, attempts, radius, prob)
patchAttempt(m, type, radius, prob, size) ==
  LET m1 == draw(m)
      cx == Scale(m1.s, size)
      m2 == draw(m1)
      cy == Scale(m2.s, size)
  IN patchCells(m2, 0, cx, cy, type, radius, prob, size)

\* the marsh loop: a meadow land tile with water beside it becomes marsh
nearWater(tiles, i, size) ==
  LET p == idxToXY(i, size) IN
  \E d \in {<<1, 0>>, <<-1, 0>>, <<0, 1>>, <<0, -1>>} :
    /\ inGrid(p.x + d[1], p.y + d[2], size)
    /\ tiles[xyToIdx(p.x + d[1], p.y + d[2], size)].terrain = "water"

markMarsh(m, size) ==
  [m EXCEPT !.tiles = [i \in DOMAIN m.tiles |->
     IF m.tiles[i].terrain # "water" /\ nearWater(m.tiles, i, size) /\ m.tiles[i].biome = "meadow"
     THEN [m.tiles[i] EXCEPT !.biome = "marsh"]
     ELSE m.tiles[i]]]

\* the patches in the order of the calls: type, attempts, radius, prob
Patches ==
  [forest  |-> [attempts |-> 12, radius |-> 2, prob |-> Chance.patch, then |-> "hill"],
   hill    |-> [attempts |-> 10, radius |-> 2, prob |-> Chance.patch, then |-> "marsh"],
   thicket |-> [attempts |-> 5, radius |-> 2, prob |-> Chance.thicket, then |-> "returned"]]

\* the sizes and seed strings the generator is called with
MaxGenSize == 6
GenSizes == 1 .. MaxGenSize
Seeds ==
  {<<"2", "9">>, <<"3", "6">>, <<"2", "0", "2", "6", "-", "1", "1", "-", "3">>}

(***************************************************************************)
(* State.                                                                  *)
(***************************************************************************)
VARIABLES
  grid,            \* Tile[]: index -> [terrain, biome, structure]
  res,             \* Resources
  rack,            \* string[]
  letterPool,      \* letters left to refill the rack with
  population, housing, happiness, tier,
  wonderProgress,  \* {len8, rare, vv}
  dict,            \* Set<string>
  msg,             \* the status line
  selected,        \* the build tool: "none", "__road__" or a building id
  closure,         \* the interval effect: population and wonderProgress as
                   \* captured by its callback (the effect re-runs when grid,
                   \* res, happiness or maxLetters change), the id held by
                   \* regenTimer.current, the ids of the intervals set and
                   \* not cleared, and whether App is still mounted

  events,          \* the number of events handled so far
  gen              \* a call of generateProceduralTerrain in progress: its
                   \* arguments, loop variables and working state

\* the state of the application
app == <<grid, res, rack, letterPool, population, housing, happiness, tier,
         wonderProgress, dict, msg, selected, closure>>

vars == <<app, events, gen>>

\* one more event (a click, a key, a timer firing, a resolved fetch) is handled
Event == events < MaxEvents /\ events' = events + 1 /\ UNCHANGED gen

\* no call of the generator is in progress
GenIdle ==
  [phase |-> "idle", size |-> 0, seed |-> <<>>, call |-> 0, x |-> 0, y |-> 0, i |-> 0,
   m |-> Working(W(0, 0), <<>>), first |-> <<>>]

NoWonder == [len8 |-> FALSE, rare |-> FALSE, vv |-> FALSE]
AllWonder == [len8 |-> TRUE, rare |-> TRUE, vv |-> TRUE]

\* before the first run of the effect: regenTimer = useRef(null)
NoTimer ==
  [population |-> 0, wonderProgress |-> NoWonder, timer |-> 0, active |-> {},
   mounted |-> TRUE]

\* variant of regenEffect: no interval is cleared before the next one is set
regenEffectNoClear(prev, pop, wonder) ==
  [population |-> pop, wonderProgress |-> wonder, timer |-> prev.timer + 1,
   active |-> prev.active \cup {prev.timer + 1}, mounted |-> prev.mounted]

\* one run of the effect after the run that left prev: the cleanup of that
\* run, clearInterval(regenTimer.current), then the body, which clears
\* regenTimer.current if set and stores the id of a new interval in it
regenEffect(prev, pop, wonder) ==
  LET cleaned == prev.active \ {prev.timer}
      cleared == IF prev.timer # 0 THEN cleaned \ {prev.timer} ELSE cleaned
      id == prev.timer + 1
  IN [population |-> pop, wonderProgress |-> wonder, timer |-> id,
      active |-> cleared \cup {id}, mounted |-> prev.mounted]

\* the effect re-runs after the render of this step
Captured(pop, wonder) == regenEffect(closure, pop, wonder)

(***************************************************************************)
(* submitWord(raw).                                                        *)
(***************************************************************************)
\* the racks setRack(nextRack) may store: the kept letters, then the pushes
RefilledRacks(rk, word, pool) ==
  LET nextRack == ConsumeLetters(rk, countChars(word))
      toFill == Len(rk) - Len(nextRack)
      take == Min(toFill, pool)
  IN {nextRack \o d : d \in Draws(RefillPushes(toFill, take))}

\* variant of WonderAfter: the flags are those of the last word alone
WonderOfWord(prev, word) ==
  [len8 |-> Len(word) >= 8,
   rare |-> CountIn(word, WONDER_RARES) > 0,
   vv   |-> HasVowelPair(word)]

\* setWonderProgress(prev => ...)
WonderAfter(prev, word) ==
  [len8 |-> prev.len8 \/ Len(word) >= 8,
   rare |-> prev.rare \/ CountIn(word, WONDER_RARES) > 0,
   vv   |-> prev.vv \/ HasVowelPair(word)]

submitWord(raw) ==
  LET word == Normalize(raw) IN
  IF Len(word) < 3 THEN
    /\ msg' = Msg("Use at least 3 letters.")
    /\ UNCHANGED <<grid, res, rack, letterPool, population, housing, happiness, tier,
                   wonderProgress, dict, selected, closure>>
  ELSE IF ~canFormFromRack(word, rack) THEN
    /\ msg' = Msg("That word can't be formed from your rack.")
    /\ UNCHANGED <<grid, res, rack, letterPool, population, housing, happiness, tier,
                   wonderProgress, dict, selected, closure>>
  ELSE IF word \notin dict THEN
    /\ msg' = Msg("Not in dictionary.")
    /\ UNCHANGED <<grid, res, rack, letterPool, population, housing, happiness, tier,
                   wonderProgress, dict, selected, closure>>
  ELSE
    LET y == resourceYieldBase(word, tier, happiness, grid)
        toFill == Len(rack) - Len(ConsumeLetters(rack, countChars(word)))
        take == Min(toFill, letterPool)
    IN /\ wonderProgress' = WonderAfter(wonderProgress, word)
       /\ res' = addResources(res, y)
       /\ letterPool' = letterPool - take
       /\ rack' \in RefilledRacks(rack, word, letterPool)
       /\ msg' = MsgYield(y)
       /\ closure' = Captured(population, wonderProgress')
       /\ UNCHANGED <<grid, population, housing, happiness, tier, dict, selected>>

SubmitWord == Event /\ \E raw \in RawInputs : submitWord(raw)

(***************************************************************************)
(* The Refresh button.                                                     *)
(***************************************************************************)
\* rack.slice(use)
SliceFrom(rk, use) == SubSeq(rk, use + 1, Len(rk))

Refresh ==
  LET need == Len(rack)
      use == Min(need, letterPool)
  IN /\ Event
     /\ use = 0 => Len(rack) < MaxRack
     /\ letterPool' = letterPool - use
     /\ rack' \in {r \o SliceFrom(rack, use) : r \in generateBalancedRack(use)}
     /\ UNCHANGED <<grid, res, population, housing, happiness, tier,
                    wonderProgress, dict, msg, selected, closure>>

(***************************************************************************)
(* placeRoadOrBridge(idx), with the two check boxes it reads.  Both the    *)
(* click and the drag (mouseenter with the button down) of the road tool   *)
(* call it.                                                                *)
(***************************************************************************)
Reject(text) ==
  /\ msg' = Msg(text)
  /\ UNCHANGED <<grid, res, rack, letterPool, population, housing, happiness, tier,
                 wonderProgress, dict, selected, closure>>

\* the new grid and resources are rendered; the interval effect re-runs
Commit(g, r) ==
  /\ grid' = g
  /\ res' = r
  /\ closure' = Captured(population, wonderProgress)
  /\ UNCHANGED <<rack, letterPool, population, housing, happiness, tier,
                 wonderProgress, dict, selected>>

\* variant of RemoveAt: the two updates of the tile are both applied, as
\* with functional setGrid updates
RemoveAtBoth(idx) ==
  LET t == grid[idx]
      paved == t.terrain \in {"road", "bridge"}
      refund == IF t.terrain = "bridge" THEN BRIDGE_REFUND ELSE ROAD_REFUND
      cleared == [t EXCEPT !.structure = NoStructure]
      next == [grid EXCEPT ![idx] = IF paved THEN [cleared EXCEPT !.terrain = "grass"] ELSE cleared]
  IN IF paved \/ t.structure # NoStructure
     THEN /\ Commit(next, IF paved THEN addResources(res, refund) ELSE res)
          /\ UNCHANGED msg
     ELSE UNCHANGED app

\* removeMode: both branches copy the rendered grid and the tile t read from
\* it, so the second setGrid replaces the first
RemoveAt(idx) ==
  LET t == grid[idx]
      paved == t.terrain \in {"road", "bridge"}
      refund == IF t.terrain = "bridge" THEN BRIDGE_REFUND ELSE ROAD_REFUND
      next == IF t.structure # NoStructure
              THEN [grid EXCEPT ![idx] = [t EXCEPT !.structure = NoStructure]]
              ELSE IF paved THEN [grid EXCEPT ![idx] = [t EXCEPT !.terrain = "grass"]]
              ELSE grid
  IN IF paved \/ t.structure # NoStructure
     THEN /\ Commit(next, IF paved THEN addResources(res, refund) ELSE res)
          /\ UNCHANGED msg
     ELSE UNCHANGED app

\* variant of placeRoadOrBridge: the bridge mode box is not consulted
placeRoadOrBridgeAnyMode(idx, bridgeMode, removeMode) ==
  LET t == grid[idx] IN
  IF removeMode THEN RemoveAt(idx)
  ELSE IF t.terrain = "water" THEN
    IF ~canAfford(res, BRIDGE_COST) THEN Reject("Not enough for bridge.")
    ELSE /\ Commit([grid EXCEPT ![idx] = [t EXCEPT !.terrain = "bridge"]], pay(res, BRIDGE_COST))
         /\ UNCHANGED msg
  ELSE IF t.terrain = "grass" THEN
    IF t.biome = "thicket" THEN Reject("Thicket is impassable.")
    ELSE LET cost == addCosts(ROAD_BASE_COST, BIOME_ROAD_MOD[t.biome]) IN
         IF ~canAfford(res, cost) THEN Reject("Not enough for road.")
         ELSE /\ Commit([grid EXCEPT ![idx] = [t EXCEPT !.terrain = "road"]], pay(res, cost))
              /\ UNCHANGED msg
  ELSE UNCHANGED app

placeRoadOrBridge(idx, bridgeMode, removeMode) ==
  LET t == grid[idx] IN
  IF removeMode THEN RemoveAt(idx)
  ELSE IF t.terrain = "water" THEN
    IF ~bridgeMode THEN Reject("Toggle Bridge Mode for water.")
    ELSE IF ~canAfford(res, BRIDGE_COST) THEN Reject("Not enough for bridge.")
    ELSE /\ Commit([grid EXCEPT ![idx] = [t EXCEPT !.terrain = "bridge"]], pay(res, BRIDGE_COST))
         /\ UNCHANGED msg
  ELSE IF t.terrain = "grass" THEN
    IF t.biome = "thicket" THEN Reject("Thicket is impassable.")
    ELSE LET cost == addCosts(ROAD_BASE_COST, BIOME_ROAD_MOD[t.biome]) IN
         IF ~canAfford(res, cost) THEN Reject("Not enough for road.")
         ELSE /\ Commit([grid EXCEPT ![idx] = [t EXCEPT !.terrain = "road"]], pay(res, cost))
              /\ UNCHANGED msg
  ELSE UNCHANGED app

RoadTool ==
  /\ Event
  /\ selected = "__road__"
  /\ \E idx \in Indices, bridgeMode \in BOOLEAN, removeMode \in BOOLEAN :
       placeRoadOrBridge(idx, bridgeMode, removeMode)

(***************************************************************************)
(* The build palette and the tile click with a building selected.          *)
(***************************************************************************)
affordable(b) == canAfford(res, scaledCost(b, 1))

\* the palette lists CATALOG.filter(b => b.tier <= tier); a button is
\* disabled while its building is not affordable
SelectBuilding ==
  \E b \in BuildingIds :
    /\ Event
    /\ CATALOG[b].tier <= tier
    /\ affordable(b)
    /\ selected' = b
    /\ UNCHANGED <<grid, res, rack, letterPool, population, housing, happiness, tier,
                   wonderProgress, dict, msg, closure>>

SelectRoad ==
  /\ Event
  /\ selected' = "__road__"
  /\ UNCHANGED <<grid, res, rack, letterPool, population, housing, happiness, tier,
                 wonderProgress, dict, msg, closure>>

FreeCell(tile) == tile.terrain \in {"road", "bridge"} /\ tile.structure = NoStructure

clickBuild(b, idx) ==
  LET fp == getFootprint(b, idx) IN
  IF fp = FootprintNull THEN Reject("Out of bounds")
  ELSE IF \E k \in DOMAIN fp : ~FreeCell(grid[fp[k]])
       THEN Reject("Needs empty road/bridge footprint")
  ELSE LET cost == scaledCost(b, 1) IN
       IF ~canAfford(res, cost) THEN Reject("Not enough resources")
       ELSE /\ Commit([i \in Indices |->
                         IF \E k \in DOMAIN fp : fp[k] = i
                         THEN [grid[i] EXCEPT !.structure = Structure(b, 1)]
                         ELSE grid[i]],
                      pay(res, cost))
            /\ msg' = MsgBuilt(b)

BuildClick ==
  /\ Event
  /\ selected \notin {"none", "__road__"}
  /\ \E idx \in Indices : clickBuild(selected, idx)

(***************************************************************************)
(* The regen interval callback, every 5000 ms.  It reads the grid, res and *)
(* happiness of the render that installed it, and through computeCityStats *)
(* the population and wonderProgress of that render.  The ReferenceError   *)
(* of computeCityStats (p is not defined) is thrown after every setState   *)
(* call has been made, so the updates below are all rendered.              *)
(***************************************************************************)
\* Math.min(maxLetters, Math.floor(p + 1*mult))
PoolRegen(p, h) == Min(maxLetters, (p * 10 + Mult10(h)) \div 10)

\* the state the callback reads and sets
Now ==
  [grid |-> grid, res |-> res, letterPool |-> letterPool, population |-> population,
   housing |-> housing, happiness |-> happiness, tier |-> tier,
   wonderProgress |-> wonderProgress, closure |-> closure]

\* the state st after one run of the callback
regenTick(st) ==
  LET next == pay(st.res, UpkeepDue(st.grid))
      blocked == next.coin < 0 \/ next.lumber < 0 \/ next.stone < 0
      happy == CityHappiness(st.grid, st.closure.population)
      grown == GrowPopulation(st.grid, happy, st.population)
  IN [st EXCEPT
        !.res = IF blocked THEN st.res ELSE next,
        !.letterPool = PoolRegen(st.letterPool, st.happiness),
        !.housing = HousingCap(st.grid),
        !.happiness = happy,
        !.population = grown,
        !.tier = NewTier(st.grid, st.closure.population, st.closure.wonderProgress),
        \* setRes(res) keeps the object: the effect re-runs only for a new res
        \* object or a changed happiness
        !.closure = IF ~blocked \/ happy # st.happiness
                    THEN regenEffect(st.closure, grown, st.wonderProgress)
                    ELSE st.closure]

Tick ==
  LET st == regenTick(Now)
  IN /\ Event
     /\ closure.active # {}
     /\ res' = st.res
     /\ letterPool' = st.letterPool
     /\ housing' = st.housing
     /\ happiness' = st.happiness
     /\ population' = st.population
     /\ tier' = st.tier
     /\ closure' = st.closure
     /\ UNCHANGED <<grid, rack, wonderProgress, dict, msg, selected>>

(***************************************************************************)
(* The New Map button and the dictionary load.                             *)
(***************************************************************************)
NewMap ==
  /\ Event
  /\ grid' \in GeneratedMaps
  /\ msg' = Msg("New map")
  /\ closure' = Captured(population, wonderProgress)
  /\ UNCHANGED <<res, rack, letterPool, population, housing, happiness, tier,
                 wonderProgress, dict, selected>>

\* loadWords resolves once: the words of the file, or the fallback list
\* again when the fetch fails
LoadWords ==
  /\ Event
  /\ dict = FALLBACK_WORDS
  /\ dict' \in {WordsFile, FALLBACK_WORDS}
  /\ UNCHANGED <<grid, res, rack, letterPool, population, housing, happiness, tier,
                 wonderProgress, msg, selected, closure>>

(***************************************************************************)
(* Initial states.  Fresh is the state App() constructs.  The others are   *)
(* sessions in progress: their tier, population and happiness are those of *)
(* a city on the full-size map, of which the grid keeps the top-left       *)
(* corner.                                                                 *)
(***************************************************************************)
Session(g, r, rk, lp, pop, hs, hp, t, w, d) ==
  [grid |-> g, res |-> r, rack |-> rk, letterPool |-> lp, population |-> pop,
   housing |-> hs, happiness |-> hp, tier |-> t, wonderProgress |-> w, dict |-> d]

\* racks generateBalancedRack(DEFAULT_RACK_SIZE) returns unchanged: at least
\* two vowels and one of JQXZKV
InitialRacks ==
  {<<"K","N","I","G","H","T","E","A">>}

Fresh ==
  {Session(g, Zero, rk, InitialLetterPool, 0, 0, InitialHappiness, 1, NoWonder, FALLBACK_WORDS) :
     g \in GeneratedMaps, rk \in InitialRacks}

Builder ==
  {Session(Paved(GeneratedMap(FALSE), {Size - 1, Size, Size + 1}), R(45, 30, 5, 0, 0),
           <<"S","T","O","N","E","A","B","C">>,
           lp, 0, 0, 50, 1, NoWonder, WordsFile) : lp \in {2, 6}}

Town ==
  {Session(WithBuilding(GeneratedMap(FALSE), "market"), R(3, 2, 1, 0, 0),
           <<"Z","O","N","E","T","E","A","K">>, 3, 50, 50, 20, 2, NoWonder, WordsFile)}

Capital ==
  {Session(WithBuilding(GeneratedMap(FALSE), "library"), R(5, 0, 4, 0, 0),
           <<"E","Q","U","A","T","I","O","N">>, 0, 300, 300, 100, 4, AllWonder, FALLBACK_WORDS)}

\* every tile paved, and the price of a Sky Port in hand
Port ==
  {Session(Paved(GeneratedMap(FALSE), Indices), R(160, 35, 40, 10, 15),
           <<"K","E","K","E","K","E","E","E">>, 0, 300, 300, 60, 4, AllWonder, WordsFile)}

\* a workshop (four cells) and a cottage stand on a paved map; housing and
\* happiness are those the last tick computed, the population is growing
Hamlet ==
  {Session([WithBuilding(Paved(GeneratedMap(FALSE), Indices), "workshop")
              EXCEPT ![Size - 1].structure = Structure("cottage", 1)],
           R(coin, 0, 0, 0, 0), <<"K","E","K","E","K","E","E","E">>,
           0, 5, 7, 51, 1, NoWonder, FALLBACK_WORDS) : coin \in {2, 6}}

Sessions == Fresh \cup Builder \cup Town \cup Capital \cup Port \cup Hamlet

Init ==
  \E s \in Sessions :
    /\ grid = s.grid
    /\ res = s.res
    /\ rack = s.rack
    /\ letterPool = s.letterPool
    /\ population = s.population
    /\ housing = s.housing
    /\ happiness = s.happiness
    /\ tier = s.tier
    /\ wonderProgress = s.wonderProgress
    /\ dict = s.dict
    /\ msg = Msg("Welcome to WordCity v7!")
    /\ selected = "none"
    /\ closure = regenEffect(NoTimer, s.population, s.wonderProgress)
    /\ events = 0
    /\ gen = GenIdle

Next ==
  \/ SubmitWord
  \/ Refresh
  \/ SelectRoad
  \/ SelectBuilding
  \/ RoadTool
  \/ BuildClick
  \/ Tick
  \/ NewMap
  \/ LoadWords

Spec == Init /\ [][Next]_vars

(***************************************************************************)
(* The life of the component: App is unmounted at some point, its effect   *)
(* cleanups run, and no handler of it is called afterwards.  A tick is a   *)
(* timer firing: it needs an interval that was set and not cleared.        *)
(***************************************************************************)
\* the cleanup of the last run of the interval effect:
\* () => clearInterval(regenTimer.current)
Unmount ==
  /\ Event
  /\ closure.mounted
  /\ closure' = [closure EXCEPT !.active = @ \ {closure.timer}, !.mounted = FALSE]
  /\ UNCHANGED <<grid, res, rack, letterPool, population, housing, happiness, tier,
                 wonderProgress, dict, msg, selected>>

LifeNext ==
  \/ closure.mounted /\ SubmitWord
  \/ closure.mounted /\ Refresh
  \/ closure.mounted /\ SelectRoad
  \/ closure.mounted /\ SelectBuilding
  \/ closure.mounted /\ RoadTool
  \/ closure.mounted /\ BuildClick
  \/ closure.mounted /\ NewMap
  \/ closure.mounted /\ LoadWords
  \/ Tick
  \/ Unmount

LifeSpec == Init /\ [][LifeNext]_vars

(***************************************************************************)
(* Two road-tool events handled before the next render (a drag across two  *)
(* tiles): both calls of placeRoadOrBridge read the grid and res of the    *)
(* same render.  When the render comes, the grid is the last one passed to *)
(* setGrid, the functional updates of res have been applied in turn, and   *)
(* the message is the last one set.                                        *)
(***************************************************************************)
\* the setState calls of placeRoadOrBridge(idx) when it reads grid g and
\* resources r: the grid passed to setGrid (g when it is not called), what
\* its setRes updates add and take, and the message set
roadUpdates(g, r, idx, bridgeMode, removeMode) ==
  LET t == g[idx]
      paved == t.terrain \in {"road", "bridge"}
      none == [setGrid |-> FALSE, grid |-> g, gain |-> Zero, cost |-> Zero,
               said |-> FALSE, msg |-> Msg("")]
      refused(text) == [none EXCEPT !.said = TRUE, !.msg = Msg(text)]
      placed(terrain, cost) ==
        [none EXCEPT !.setGrid = TRUE,
                     !.grid = [g EXCEPT ![idx] = [t EXCEPT !.terrain = terrain]],
                     !.cost = cost]
  IN IF removeMode THEN
       IF t.structure # NoStructure THEN
         [none EXCEPT !.setGrid = TRUE,
                      !.grid = [g EXCEPT ![idx] = [t EXCEPT !.structure = NoStructure]],
                      !.gain = IF ~paved THEN Zero
                               ELSE IF t.terrain = "bridge" THEN BRIDGE_REFUND
                               ELSE ROAD_REFUND]
       ELSE IF paved THEN
         [none EXCEPT !.setGrid = TRUE,
                      !.grid = [g EXCEPT ![idx] = [t EXCEPT !.terrain = "grass"]],
                      !.gain = IF t.terrain = "bridge" THEN BRIDGE_REFUND ELSE ROAD_REFUND]
       ELSE none
     ELSE IF t.terrain = "water" THEN
       IF ~bridgeMode THEN refused("Toggle Bridge Mode for water.")
       ELSE IF ~canAfford(r, BRIDGE_COST) THEN refused("Not enough for bridge.")
       ELSE placed("bridge", BRIDGE_COST)
     ELSE IF t.terrain = "grass" THEN
       IF t.biome = "thicket" THEN refused("Thicket is impassable.")
       ELSE LET cost == addCosts(ROAD_BASE_COST, BIOME_ROAD_MOD[t.biome]) IN
            IF ~canAfford(r, cost) THEN refused("Not enough for road.")
            ELSE placed("road", cost)
     ELSE none

\* the resources after the setRes updates of one call
resAfter(r, u) == pay(addResources(r, u.gain), u.cost)

\* placeRoadOrBridge(idx1), then placeRoadOrBridge(idx2), then the render
paintBatch(idx1, idx2, bridgeMode, removeMode) ==
  LET u1 == roadUpdates(grid, res, idx1, bridgeMode, removeMode)
      u2 == roadUpdates(grid, res, idx2, bridgeMode, removeMode)
  IN /\ grid' = IF u2.setGrid THEN u2.grid ELSE u1.grid
     /\ res' = IF u1.setGrid \/ u2.setGrid THEN resAfter(resAfter(res, u1), u2) ELSE res
     /\ msg' = IF u2.said THEN u2.msg ELSE IF u1.said THEN u1.msg ELSE msg
     /\ closure' = IF u1.setGrid \/ u2.setGrid
                   THEN Captured(population, wonderProgress)
                   ELSE closure
     /\ UNCHANGED <<rack, letterPool, population, housing, happiness, tier,
                    wonderProgress, dict, selected>>

PaintBatch ==
  /\ events + 2 <= MaxEvents
  /\ events' = events + 2
  /\ UNCHANGED gen
  /\ selected = "__road__"
  /\ \E idx1 \in Indices, idx2 \in Indices, bridgeMode \in BOOLEAN, removeMode \in BOOLEAN :
       /\ idx1 # idx2
       /\ paintBatch(idx1, idx2, bridgeMode, removeMode)

BatchNext ==
  \/ Next
  \/ PaintBatch

BatchSpec == Init /\ [][BatchNext]_vars

(***************************************************************************)
(* The first iteration of the application (src/unnamed/part_000): the map  *)
(* editing of its App().  Roads and buildings cost nothing there, the tier *)
(* stays 1, and there is no interval; its handlers change the grid, the    *)
(* selected tool and the message.                                          *)
(***************************************************************************)
MaxEarlyEvents == 6

\* the words of the dictionary before loadWords resolves
EarlyWords ==
  {<<"S","T","O","N","E">>, <<"M","A","G","I","C">>, <<"G","A","R","D","E","N">>,
   <<"B","R","I","D","G","E">>, <<"L","I","B","R","A","R","Y">>, <<"R","I","V","E","R">>,
   <<"M","A","R","K","E","T">>, <<"C","O","T","T","A","G","E">>}

\* CATALOG.filter(b => b.tier <= tier) with tier 1: a 1x1 cottage, a 2x2
\* sawmill and a 2x2 quarry, the footprints these ids have in CATALOG
EarlyPalette == {"cottage", "sawmill", "quarry"}

\* what the handlers of the map leave alone
EarlyRest == <<res, rack, letterPool, population, housing, happiness, tier,
               wonderProgress, dict, closure>>

EarlyEvent ==
  /\ events < MaxEarlyEvents
  /\ events' = events + 1
  /\ UNCHANGED <<gen, EarlyRest>>

\* placeRoadOrBridge(i) of part_000: setMsg(""), then a functional update of
\* the grid
earlyPlaceRoadOrBridge(i, bridgeMode, removeMode) ==
  LET t == grid[i]
      with(tile) == [grid EXCEPT ![i] = tile]
  IN IF removeMode THEN
       /\ msg' = Msg("")
       /\ grid' = IF t.terrain \in {"road", "bridge"} THEN with([t EXCEPT !.terrain = "grass"])
                  ELSE IF t.structure # NoStructure THEN with([t EXCEPT !.structure = NoStructure])
                  ELSE grid
     ELSE IF t.terrain = "water" THEN
       IF ~bridgeMode THEN msg' = Msg("Toggle Bridge to span water.") /\ grid' = grid
       ELSE msg' = Msg("") /\ grid' = with([t EXCEPT !.terrain = "bridge"])
     ELSE IF t.terrain = "grass" THEN
       IF t.biome = "thicket" THEN msg' = Msg("Thicket is impassable.") /\ grid' = grid
       ELSE msg' = Msg("") /\ grid' = with([t EXCEPT !.terrain = "road"])
     ELSE msg' = Msg("") /\ grid' = grid

\* onClickTile(i) with a building selected: the points of the footprint are
\* tested in turn, each for the edge and then for an empty road or bridge
onClickTile(i) ==
  LET b == selected
      p == idxToXY(i, Size)
      pts == FootprintPoints(b)
      off(k) == LET xx == p.x + pts[k][1]
                    yy == p.y + pts[k][2]
                IN xx < 0 \/ yy < 0 \/ xx >= Size \/ yy >= Size
      at(k) == xyToIdx(p.x + pts[k][1], p.y + pts[k][2], Size)
      bad(k) == off(k) \/ ~FreeCell(grid[at(k)])
      ids == {at(k) : k \in DOMAIN pts}
  IN IF \E k \in DOMAIN pts : bad(k)
     THEN LET first == CHOOSE k \in DOMAIN pts : bad(k) /\ \A j \in 1 .. (k - 1) : ~bad(j)
          IN /\ msg' = IF off(first) THEN Msg("Out of bounds.")
                       ELSE Msg("Needs empty road/bridge tiles.")
             /\ grid' = grid
     ELSE /\ grid' = [j \in Indices |->
                       IF j \in ids THEN [grid[j] EXCEPT !.structure = Structure(b, 1)]
                       ELSE grid[j]]
          /\ msg' = MsgBuilt(b)

\* the Road/Bridge Tool button and the buttons of the palette
EarlySelect ==
  /\ EarlyEvent
  /\ selected' \in {"__road__"} \cup EarlyPalette
  /\ UNCHANGED <<grid, msg>>

\* a click or a drag on tile i with the road tool (onClickTile, onDragTile)
EarlyRoadTool ==
  /\ EarlyEvent
  /\ selected = "__road__"
  /\ \E i \in Indices, bridgeMode \in BOOLEAN, removeMode \in BOOLEAN :
       earlyPlaceRoadOrBridge(i, bridgeMode, removeMode)
  /\ UNCHANGED selected

EarlyBuildClick ==
  /\ EarlyEvent
  /\ selected \in EarlyPalette
  /\ \E i \in Indices : onClickTile(i)
  /\ UNCHANGED selected

EarlyInit ==
  /\ grid \in GeneratedMaps
  /\ res = Zero
  /\ rack \in InitialRacks
  /\ letterPool = 0
  /\ population = 0
  /\ housing = 0
  /\ happiness = 80
  /\ tier = 1
  /\ wonderProgress = NoWonder
  /\ dict = EarlyWords
  /\ msg = Msg("Cozy build: drag to pan, wheel to zoom. Build roads/bridges first!")
  /\ selected = "none"
  /\ closure = NoTimer
  /\ events = 0
  /\ gen = GenIdle

EarlyNext ==
  \/ EarlySelect
  \/ EarlyRoadTool
  \/ EarlyBuildClick

EarlySpec == EarlyInit /\ [][EarlyNext]_vars

(***************************************************************************)
(* generateProceduralTerrain(size, seedStr), one loop turn per step, called *)
(* twice with the same arguments.                                          *)
(***************************************************************************)
\* variant of makeRNG: the stream goes on from the state the last call left
makeRNGKeep(seedNum) == gen.m.s

\* makeRNG(seedNum): s = seedNum >>> 0
makeRNG(seedNum) == seedNum

\* the call up to the river loop: tiles, rnd, and
\* y = Math.floor(size/3 + rnd()*size/3)
begin(size, seed, call, first) ==
  LET m1 == draw(Working(makeRNG(hashSeed(seed)), BlankTiles(size)))
  IN [phase |-> "river", size |-> size, seed |-> seed, call |-> call,
      x |-> 0, y |-> (size + Scale(m1.s, size)) \div 3, i |-> 0,
      m |-> m1, first |-> first]

GenCall ==
  /\ gen.phase = "idle"
  /\ \E size \in GenSizes, seed \in Seeds : gen' = begin(size, seed, 1, <<>>)
  /\ UNCHANGED <<app, events>>

GenRiver ==
  /\ gen.phase = "river"
  /\ LET c == riverColumn(gen.m, gen.x, gen.y, gen.size)
     IN gen' = [gen EXCEPT !.m = c.m, !.y = c.y, !.x = gen.x + 1,
                           !.phase = IF gen.x + 1 < gen.size THEN "river" ELSE "forest"]
  /\ UNCHANGED <<app, events>>

GenPatch ==
  /\ gen.phase \in DOMAIN Patches
  /\ LET p == Patches[gen.phase]
         last == gen.i + 1 = p.attempts
     IN gen' = [gen EXCEPT !.m = patchAttempt(gen.m, gen.phase, p.radius, p.prob, gen.size),
                           !.i = IF last THEN 0 ELSE gen.i + 1,
                           !.phase = IF last THEN p.then ELSE gen.phase]
  /\ UNCHANGED <<app, events>>

GenMarsh ==
  /\ gen.phase = "marsh"
  /\ gen' = [gen EXCEPT !.m = markMarsh(gen.m, gen.size), !.phase = "thicket"]
  /\ UNCHANGED <<app, events>>

\* the first call has returned its tiles; the same call is made again
GenCallAgain ==
  /\ gen.phase = "returned"
  /\ gen.call = 1
  /\ gen' = begin(gen.size, gen.seed, 2, gen.m.tiles)
  /\ UNCHANGED <<app, events>>

GenInit == Init /\ grid = GeneratedMap(FALSE) /\ res = Zero

GenNext ==
  \/ GenCall
  \/ GenRiver
  \/ GenPatch
  \/ GenMarsh
  \/ GenCallAgain

GenSpec == GenInit /\ [][GenNext]_vars

(***************************************************************************)
(* Properties.                                                             *)
(***************************************************************************)
NonNegative(r) == \A k \in ResKeys : r[k] \in Nat

\* what a step took from the counters
Spent(r, rNext) == [k \in ResKeys |-> r[k] - rNext[k]]

\* the counters r less the price c
Minus(r, c) == [k \in ResKeys |-> r[k] - c[k]]

\* the complete prices a step may charge on grid g
Prices(g) ==
  {addResources(ROAD_BASE_COST, BIOME_ROAD_MOD[bio]) : bio \in Biomes}
    \cup {BRIDGE_COST}
    \cup {CATALOG[b].cost : b \in BuildingIds}
    \cup {UpkeepDue(g)}

Occurrences(s, c) == Cardinality({i \in DOMAIN s : s[i] = c})

\* rack rk holds every letter of word as often as word needs it
Spellable(word, rk) ==
  \A i \in DOMAIN word : Occurrences(word, word[i]) <= Occurrences(rk, word[i])

\* the submitted texts, normalized: upper case, letters only
Normalized == [raw \in RawInputs |-> Normalize(raw)]

\* one of the three validation gates refuses raw in the current state
GateFails(raw) ==
  LET word == Normalized[raw] IN
  Len(word) < 3 \/ ~Spellable(word, rack) \/ word \notin dict

\* the game state a refused submission must leave alone
Played == <<grid, res, rack, letterPool, population, housing, happiness, tier,
            wonderProgress, dict, selected>>

\* C2: a submission refused by a validation gate (normalized word too short,
\* not spellable from the rack, or absent from the dictionary) leaves the
\* resources and the rack as they were; only the status message changes.
C2_RefusedUnchanged ==
  [][\/ (res' = res /\ rack' = rack /\ UNCHANGED Played)
     \/ \A raw \in RawInputs : ~(GateFails(raw) /\ submitWord(raw))]_vars

\* a word the rack spells was refused by the dictionary
C2_Witness ==
  /\ msg.text = "Not in dictionary."
  /\ Spellable(<<"N","O","T","E","S">>, rack)
  /\ <<"N","O","T","E","S">> \notin dict

\* the minimum word length of a tier, as the claim states it
TierMinimum(t) == IF t >= 4 THEN 5 ELSE IF t >= 2 THEN 4 ELSE 3

\* C3: a normalized word shorter than the tier's minimum (3 at tier 1, 4 at
\* tier 2 or more, 5 at tier 4) is rejected, and resources, rack, letter
\* pool and wonder flags stay as they were.
C3_TierGate ==
  [][\/ /\ res' = res
        /\ rack' = rack
        /\ letterPool' = letterPool
        /\ wonderProgress' = wonderProgress
     \/ \A raw \in RawInputs :
          ~(Len(Normalized[raw]) < TierMinimum(tier) /\ submitWord(raw))]_vars

\* C4: the rack always holds as many letters as it did initially (8),
\* whatever the letter pool holds.
C4_FixedLength == Len(rack) = DEFAULT_RACK_SIZE

\* the offsets of a footprint: the explicit shape, else the dense w x h rectangle
Offsets(b) ==
  IF CATALOG[b].shape # <<>>
  THEN {CATALOG[b].shape[i] : i \in DOMAIN CATALOG[b].shape}
  ELSE (0 .. CATALOG[b].w - 1) \X (0 .. CATALOG[b].h - 1)

Column(idx) == idx % Size
Row(idx) == idx \div Size

\* every cell of b anchored at idx lies in the anchor's grid without leaving
\* its row range, is road or bridge, and is empty
FootprintFits(b, idx) ==
  \A o \in Offsets(b) :
    /\ Column(idx) + o[1] \in 0 .. Size - 1
    /\ Row(idx) + o[2] \in 0 .. Size - 1
    /\ LET tile == grid[(Row(idx) + o[2]) * Size + Column(idx) + o[1]]
       IN tile.terrain \in {"road", "bridge"} /\ tile.structure = NoStructure

\* the cells of a footprint that fits
Cells(b, idx) == {(Row(idx) + o[2]) * Size + Column(idx) + o[1] : o \in Offsets(b)}

\* C5: a building placement whose footprint has a cell off the grid (or past
\* the end of its row), not on road or bridge, or already built on is
\* rejected and changes neither grid nor resources; a structure only ever
\* appears on a tile that was empty road or bridge.
C5_FootprintGate ==
  [][/\ \/ (grid' = grid /\ res' = res)
        \/ \A idx \in Indices :
             ~(selected \in BuildingIds /\ ~FootprintFits(selected, idx)
               /\ clickBuild(selected, idx))
     /\ \A i \in Indices :
          (grid'[i].structure # NoStructure /\ grid'[i].structure # grid[i].structure)
            => (grid[i].terrain \in {"road", "bridge"} /\ grid[i].structure = NoStructure)]_vars

\* a two-cell building was refused at the end of a row although the last
\* tile of the row and the first tile of the next are empty road
C5_Witness ==
  /\ msg.text = "Out of bounds"
  /\ selected = "herbgarden"
  /\ grid[Size - 1].terrain = "road" /\ grid[Size - 1].structure = NoStructure
  /\ grid[Size].terrain = "road" /\ grid[Size].structure = NoStructure

\* r covers cost
Covers(r, cost) == \A k \in ResKeys : r[k] >= cost[k]

\* C6: a building placement succeeds only when the resources cover the
\* level-1 cost; it then takes exactly that cost once and gives every cell
\* of the footprint the same structure (building id, level 1); when the
\* cost is not covered nothing of the game state changes.
C6_CostOnce ==
  [][\A idx \in Indices :
       (selected \in BuildingIds /\ clickBuild(selected, idx))
         => IF Covers(res, CATALOG[selected].cost)
            THEN grid' # grid
                   => /\ res' = Minus(res, CATALOG[selected].cost)
                      /\ \A i \in Indices :
                           grid'[i] = IF i \in Cells(selected, idx)
                                      THEN [grid[i] EXCEPT !.structure = Structure(selected, 1)]
                                      ELSE grid[i]
            ELSE UNCHANGED Played]_vars

\* a two-cell building stands and was paid once
C6_Witness ==
  /\ msg = MsgBuilt("herbgarden")
  /\ Cardinality({i \in Indices : grid[i].structure = Structure("herbgarden", 1)}) = 2
  /\ res = R(35, 20, 5, 0, 0)

\* a placement was refused for want of resources (C6's other case)
C6_RefusedWitness == msg.text = "Not enough resources" /\ selected \in BuildingIds

\* the road and bridge prices the claim states
RoadPrice(bio) ==
  CASE bio = "forest" -> R(1, 2, 1, 0, 0)
    [] bio = "hill"   -> R(1, 1, 2, 0, 0)
    [] bio = "marsh"  -> R(1, 1, 3, 0, 0)
    [] OTHER          -> R(1, 1, 1, 0, 0)

BridgePrice == R(2, 1, 3, 0, 0)

\* the grid g with only tile idx changed, to terrain t
Retiled(g, idx, t) == [i \in Indices |-> IF i = idx THEN [g[i] EXCEPT !.terrain = t] ELSE g[i]]

\* C9: the road tool (remove mode off) on a non-thicket grass tile whose
\* price (1,1,1 plus forest +1 lumber, hill +1 stone, marsh +2 stone) is
\* covered turns exactly that tile into road and takes exactly that price;
\* on a water tile with bridge mode on and the price (2,1,3) covered it
\* turns exactly that tile into bridge and takes exactly that price.
C9_RoadToolPrices ==
  [][\A idx \in Indices, bridgeMode \in BOOLEAN :
       (selected = "__road__" /\ placeRoadOrBridge(idx, bridgeMode, FALSE))
         => LET t == grid[idx] IN
            /\ (t.terrain = "grass" /\ t.biome # "thicket" /\ Covers(res, RoadPrice(t.biome)))
                 => (grid' = Retiled(grid, idx, "road") /\ res' = Minus(res, RoadPrice(t.biome)))
            /\ (t.terrain = "water" /\ bridgeMode /\ Covers(res, BridgePrice))
                 => (grid' = Retiled(grid, idx, "bridge") /\ res' = Minus(res, BridgePrice))]_vars

\* a road was laid on the marsh tile of the bank for 1 coin, 1 lumber, 3 stone
C9_Witness ==
  /\ selected = "__road__"
  /\ grid[Size * (Size - 2)] = Tile("road", "marsh", NoStructure)
  /\ res = R(45, 30, 2, 0, 0)

\* a bridge was laid for 2 coin, 1 lumber, 3 stone (C9's other case)
C9_BridgeWitness ==
  /\ selected = "__road__"
  /\ \E i \in Indices : grid[i].terrain = "bridge"
  /\ res = R(43, 29, 2, 0, 0)

\* the road tool (remove mode off) must refuse tile idx
Refused(idx, bridgeMode) ==
  LET t == grid[idx] IN
  \/ t.terrain = "grass" /\ t.biome = "thicket"
  \/ t.terrain = "grass" /\ t.biome # "thicket" /\ ~Covers(res, RoadPrice(t.biome))
  \/ t.terrain = "water" /\ ~bridgeMode
  \/ t.terrain = "water" /\ bridgeMode /\ ~Covers(res, BridgePrice)
  \/ t.terrain \in {"road", "bridge"}

\* C10: a road-tool action (remove mode off) on a thicket tile, on water with
\* bridge mode off, on a tile whose price is not covered, or on a tile that
\* is already road or bridge changes nothing but the status message; no
\* thicket tile is ever road.
C10_RefusedRoadTool ==
  [][/\ \A idx \in Indices, bridgeMode \in BOOLEAN :
          (selected = "__road__" /\ Refused(idx, bridgeMode)
           /\ placeRoadOrBridge(idx, bridgeMode, FALSE))
            => UNCHANGED Played
     /\ \A i \in Indices : grid'[i].biome = "thicket" => grid'[i].terrain # "road"]_vars

\* the road tool was refused on a thicket tile
C10_Witness ==
  /\ msg.text = "Thicket is impassable."
  /\ selected = "__road__"
  /\ \E i \in Indices : grid[i] = Tile("grass", "thicket", NoStructure)

\* floor(m * n) for the multiplier m of happiness h: 1.2, 0.8 or 1
Scaled(n, h) ==
  IF h >= 80 THEN (n * 12) \div 10 ELSE IF h <= 20 THEN (n * 8) \div 10 ELSE n

\* amount when a building of ids stands on the grid
Bonus(ids, amount) ==
  IF \E i \in Indices : grid[i].structure.id \in ids THEN amount ELSE 0

\* the yield the claim gives an accepted word in the current state
StatedYield(word) ==
  LET len == Len(word)
      v == Cardinality({i \in DOMAIN word : word[i] \in {"A", "E", "I", "O", "U"}})
      rare == Cardinality({i \in DOMAIN word : word[i] \in {"J", "Q", "X", "Z", "K", "V"}})
  IN R(Scaled(len \div 2 + Bonus({"market"}, 2), happiness),
       Scaled((len - v) \div 3 + Bonus({"sawmill", "workshop"}, 1), happiness),
       Scaled((len - v) \div 4 + Bonus({"quarry"}, 1), happiness),
       Scaled(v \div 2 + (IF len >= 6 THEN Bonus({"library"}, 1) ELSE 0), happiness),
       Scaled(rare + Bonus({"wizardarium"}, 1), happiness))

\* C7: for every accepted word the resources grow by exactly floor(m * base)
\* per counter: base coin floor(len/2), lumber floor((len-vowels)/3), stone
\* floor((len-vowels)/4), knowledge floor(vowels/2), magic the number of
\* letters in JQXZKV, each plus the flat bonus of its building on the grid,
\* m = 1.2 if happiness >= 80, 0.8 if happiness <= 20, else 1.
C7_Yield ==
  [][\A raw \in RawInputs :
       (~GateFails(raw) /\ submitWord(raw))
         => /\ NonNegative(StatedYield(Normalized[raw]))
            /\ \A k \in ResKeys : res'[k] = res[k] + StatedYield(Normalized[raw])[k]]_vars

RECURSIVE KeptFrom(_, _, _)
\* the letters of rk from position i on that first-match removal of the
\* letters of word leaves: an occurrence of c stays when more than
\* count(c, word) occurrences of c come no later in rk
KeptFrom(rk, word, i) ==
  IF i > Len(rk) THEN <<>>
  ELSE LET earlier == Cardinality({j \in 1 .. i : rk[j] = rk[i]})
       IN (IF earlier > Occurrences(word, rk[i]) THEN <<rk[i]>> ELSE <<>>)
            \o KeptFrom(rk, word, i + 1)

\* C8: an accepted word takes its letters from the rack by first match; the
\* letters kept stay in order at the front of the new rack and fresh letters
\* fill the rest, so the rack keeps its length.
C8_FirstMatch ==
  [][\A raw \in RawInputs :
       (~GateFails(raw) /\ submitWord(raw))
         => LET kept == KeptFrom(rack, Normalized[raw], 1) IN
            /\ Len(kept) = Len(rack) - Len(Normalized[raw])
            /\ Len(rack') = Len(rack)
            /\ SubSeq(rack', 1, Len(kept)) = kept]_vars

\* C11: in remove mode the road tool on a road or bridge tile without a
\* structure turns that tile (a bridge over water too) into grass, keeps its
\* biome and every other tile, and adds a refund that is never negative and
\* never more, in any counter, than the price of that tile.
C11_RemoveRoad ==
  [][\A idx \in Indices, bridgeMode \in BOOLEAN :
       (/\ selected = "__road__"
        /\ grid[idx].terrain \in {"road", "bridge"}
        /\ grid[idx].structure = NoStructure
        /\ placeRoadOrBridge(idx, bridgeMode, TRUE))
         => /\ grid' = Retiled(grid, idx, "grass")
            /\ LET paid == IF grid[idx].terrain = "bridge" THEN BridgePrice
                           ELSE RoadPrice(grid[idx].biome)
               IN \A k \in ResKeys : res'[k] - res[k] \in 0 .. paid[k]]_vars

\* a bridge was removed: a tile of the river row is grass, and its refund
\* of 1 coin and 1 stone was added
C11_Witness ==
  /\ selected = "__road__"
  /\ \E i \in Indices : Row(i) = Size - 1 /\ grid[i] = Tile("grass", "meadow", NoStructure)
  /\ res = R(161, 35, 41, 10, 15)

Plus(a, b) ==
  LET lo == a[2] + b[2]
      hi == a[1] + b[1] + (IF lo >= 65536 THEN 1 ELSE 0)
  IN <<hi % 65536, lo % 65536>>

\* bit k of a
Bit(a, k) == (a \div (2 ^ k)) % 2

\* (a * 2^k) mod 2^32
Shift(a, k) ==
  IF k < 16
  THEN <<(a[1] % (2 ^ (16 - k))) * (2 ^ k) + ((a[2] * (2 ^ k)) \div 65536),
         (a[2] * (2 ^ k)) % 65536>>
  ELSE <<(a[2] % (2 ^ (32 - k))) * (2 ^ (k - 16)), 0>>

\* (a * n) mod 2^32 for a natural n below 2^31
Times(a, n) ==
  LET bits == {k \in 0 .. 30 : Bit(n, k) = 1}
      lo == SumOver([k \in bits |-> Shift(a, k)[2]], bits)
      hi == SumOver([k \in bits |-> Shift(a, k)[1]], bits) + (lo \div 65536)
  IN <<hi % 65536, lo % 65536>>

\* exclusive or of two numbers below 2^16, bit by bit
ExclusiveOr(a, b) ==
  SumOver([k \in 0 .. 15 |-> ((Bit(a, k) + Bit(b, k)) % 2) * (2 ^ k)], 0 .. 15)

RECURSIVE Fnv1a(_, _)
\* FNV-1a of the characters of seed from h on: offset basis 0x811C9DC5,
\* prime 16777619
Fnv1a(h, seed) ==
  IF seed = <<>> THEN h
  ELSE Fnv1a(Times(<<h[1], ExclusiveOr(h[2], CharCode(Head(seed)))>>, 16777619), Tail(seed))

RECURSIVE Stream(_, _)
\* the state after n outputs: state = (state*1664525 + 1013904223) mod 2^32
Stream(state, n) ==
  IF n = 0 THEN state
  ELSE LET next == Plus(Times(state, 1664525), <<1013904223 \div 65536, 1013904223 % 65536>>)
       IN IF next = state THEN state ELSE Stream(next, n - 1)

\* two grids agree on terrain and biome at every index
Agree(a, b) ==
  /\ DOMAIN a = DOMAIN b
  /\ \A i \in DOMAIN a : a[i].terrain = b[i].terrain /\ a[i].biome = b[i].biome

\* C13: the second of two calls of the generator with the same size and seed
\* string returns a grid that agrees with the first on terrain and biome at
\* every index, and the stream of a call is the one the seed string fixes:
\* it starts from the FNV-1a hash of the seed and every number drawn steps
\* it by state = (state*1664525 + 1013904223) mod 2^32.
C13_Deterministic ==
  [][gen'.phase # "idle" =>
       /\ gen'.m.s = IF gen'.phase = "river" /\ gen'.x = 0
                     THEN Stream(Fnv1a(<<33052, 40389>>, gen'.seed), gen'.m.n)
                     ELSE Stream(gen.m.s, gen'.m.n - gen.m.n)
       /\ (gen'.phase = "returned" /\ gen'.call = 2) => Agree(gen'.first, gen'.m.tiles)]_vars

\* the second call has returned a grid with water, land and three biomes
C13_Witness ==
  /\ gen.phase = "returned"
  /\ gen.call = 2
  /\ gen.m.n > 100
  /\ \E i \in DOMAIN gen.m.tiles : gen.m.tiles[i].terrain = "water"
  /\ Cardinality({gen.m.tiles[i].biome : i \in DOMAIN gen.m.tiles}) >= 3

\* C14: the grid of a call has exactly size*size tiles, each with a terrain
\* that is grass or water, a biome of the five, and no structure, and no
\* river, lake or patch stamp writes a cell outside the grid.
C14_WellFormed ==
  gen.phase # "idle" =>
    /\ ~gen.m.oob
    /\ DOMAIN gen.m.tiles = 0 .. (gen.size * gen.size - 1)
    /\ \A i \in DOMAIN gen.m.tiles :
         /\ gen.m.tiles[i].terrain \in {"grass", "water"}
         /\ gen.m.tiles[i].biome \in Biomes
         /\ gen.m.tiles[i].structure = NoStructure
         /\ DOMAIN gen.m.tiles[i] = {"terrain", "biome", "structure"}

\* a call has returned a grid with land although stamps reached over the
\* edge of the grid and left those cells out
C14_Witness ==
  /\ gen.phase = "returned"
  /\ gen.m.skipped
  /\ ~gen.m.oob
  /\ \E i \in DOMAIN gen.m.tiles : gen.m.tiles[i].terrain = "grass"

\* C15: a wonder flag (a word of 8 letters or more, a word with Q, X or Z, a
\* word with two vowels in a row) that is true stays true over every step,
\* and the flags change only in a step that is an accepted submission.
C15_FlagsOneWay ==
  [][/\ \A f \in DOMAIN wonderProgress : wonderProgress[f] => wonderProgress'[f]
     /\ wonderProgress' # wonderProgress
          => \E raw \in RawInputs : ~GateFails(raw) /\ submitWord(raw)]_vars

\* the flag of the vowel pair was set by a word and has outlived a tick and
\* a further accepted word without a vowel pair
C15_Witness ==
  /\ wonderProgress = [len8 |-> FALSE, rare |-> TRUE, vv |-> TRUE]
  /\ msg.text = "+c +l +s +k +m"
  /\ population = 0
  /\ tier = 1

\* the number of placed structures of building b on grid g: the cells that
\* carry b, by the cells of one footprint of b (a structure of which cells
\* were cleared still counts as one)
Instances(g, b) ==
  CeilDiv(Cardinality({i \in DOMAIN g : g[i].structure.id = b}), Cardinality(Offsets(b)))

\* the sum of a catalog value over the placed structures, each counted once
PerStructure(g, field) ==
  SumOver([b \in BuildingIds |-> CATALOG[b][field] * Instances(g, b)], BuildingIds)

\* the upkeep of the placed structures, each counted once
UpkeepPerStructure(g) ==
  [k \in ResKeys |->
     SumOver([b \in BuildingIds |-> CATALOG[b].upkeep[k] * Instances(g, b)], BuildingIds)]

\* C16: the housing capacity a tick computes is the sum of the housing values
\* of the placed structures, a structure of k cells counted once and not k
\* times.
C16_HousingPerStructure ==
  [][Tick => housing' = PerStructure(grid, "housing")]_vars

\* C17: happiness is within 0..100 in every state, and after a tick it is 50
\* plus the happiness deltas of the placed structures minus
\* floor(max(0, population - housing)/10), clamped to 0..100.
C17_Happiness ==
  /\ [](happiness \in 0 .. 100)
  /\ [][Tick => happiness' =
          Max(0, Min(100, 50 + PerStructure(grid, "happiness")
                            - (Max(0, population - PerStructure(grid, "housing")) \div 10)))]_vars

\* C18: the population never declines over a step; a tick that finds
\* happiness at 50 or more raises it by max(1, sum of the growth bonuses) up
\* to the housing capacity, any other tick leaves it as it was.
C18_PopulationGrows ==
  [][/\ population' >= population
     /\ Tick => population' =
          IF happiness' >= 50
          THEN Max(population, Min(PerStructure(grid, "housing"),
                                   population + Max(1, PerStructure(grid, "growth"))))
          ELSE population]_vars

\* C19: a tick takes the summed upkeep of the placed structures from the
\* resources, each counter clamped at zero: every counter after the tick is
\* max(0, counter before - upkeep due).
C19_UpkeepClamp ==
  [][Tick => \A k \in ResKeys : res'[k] = Max(0, res[k] - UpkeepPerStructure(grid)[k])]_vars

\* C20: a second tick right after a tick, with no event of the player
\* between, leaves resources, population, housing, happiness and tier as the
\* first tick left them.
C20_TickIdempotent ==
  [][Tick => LET again == regenTick(Now') IN
             /\ again.res = res'
             /\ again.population = population'
             /\ again.housing = housing'
             /\ again.happiness = happiness'
             /\ again.tier = tier']_vars

\* C21: at most one interval of the tick is set and not cleared at any time:
\* a run of the interval effect leaves exactly the interval it has just set,
\* and once App is unmounted no interval is left and no tick is taken.
C21_OneTimer ==
  [][/\ closure'.active \subseteq {closure'.timer}
     /\ closure'.timer # closure.timer => closure'.active = {closure'.timer}
     /\ ~closure'.mounted => closure'.active = {}
     /\ ~closure.mounted => ~Tick]_vars

\* App was unmounted after its interval effect had re-run at least twice
C21_Witness ==
  /\ ~closure.mounted
  /\ closure.timer >= 3
  /\ closure.active = {}

\* the grid and resources after placeRoadOrBridge(idx1) and then
\* placeRoadOrBridge(idx2), each on the state the one before it left
OneAfterAnother(idx1, idx2, bridgeMode, removeMode) ==
  LET u1 == roadUpdates(grid, res, idx1, bridgeMode, removeMode)
      r1 == resAfter(res, u1)
      u2 == roadUpdates(u1.grid, r1, idx2, bridgeMode, removeMode)
  IN [grid |-> u2.grid, res |-> resAfter(r1, u2)]

\* C22: two road-tool events handled before the next render leave the grid
\* and the resources that handling them one after another on up-to-date
\* state leaves: each tile paid for is road or bridge, and no counter is
\* negative.
C22_OneAtATime ==
  [][\A idx1 \in Indices, idx2 \in Indices, bridgeMode \in BOOLEAN, removeMode \in BOOLEAN :
       (/\ selected = "__road__"
        /\ idx1 # idx2
        /\ events' = events + 2
        /\ paintBatch(idx1, idx2, bridgeMode, removeMode))
       => LET seq == OneAfterAnother(idx1, idx2, bridgeMode, removeMode)
          IN /\ grid' = seq.grid
             /\ res' = seq.res
             /\ NonNegative(res')]_vars

\* C23: an accepted submission of a word with one of J, Q, X, Z, K, V leaves
\* the rare-letter flag true, one of a word of 8 letters or more leaves the
\* length flag true, and one of a word with two vowels in a row leaves the
\* doubled-vowel flag true.
C23_Milestones ==
  [][\A raw \in RawInputs :
       (~GateFails(raw) /\ submitWord(raw))
       => LET word == Normalized[raw]
          IN /\ CountIn(word, RARES) > 0 => wonderProgress'.rare
             /\ Len(word) >= 8 => wonderProgress'.len8
             /\ HasVowelPair(word) => wonderProgress'.vv]_vars

\* the cells of the square of side 2r+1 around <<x, y>> that lie on the grid
\* farther than r from <<x, y>>
FarCorners(x, y, r, size) ==
  {p \in (0 .. (size - 1)) \X (0 .. (size - 1)) :
     /\ p[1] - x \in (-r) .. r
     /\ p[2] - y \in (-r) .. r
     /\ (p[1] - x) * (p[1] - x) + (p[2] - y) * (p[2] - y) > r * r}

\* C24: a lake stamp of radius r around the current point of the river turns
\* to water only cells within distance r of that point: a grass cell at a
\* corner of the surrounding square, farther than r, is still grass after
\* the loop turn that stamped the lake (a turn with a lake draws four
\* numbers; the third gives r).
C24_LakeCircular ==
  [][(gen.phase = "river" /\ gen'.m.n = gen.m.n + 4)
     => LET r == 1 + Scale(Stream(gen.m.s, 3), 2)
        IN \A p \in FarCorners(gen.x, gen.y, r, gen.size) :
             LET i == xyToIdx(p[1], p[2], gen.size)
             IN gen.m.tiles[i].terrain = "grass" => gen'.m.tiles[i].terrain = "grass"]_vars

\* C25: in every state a tile carries a structure only if its terrain is
\* road or bridge.
C25_StructureOnPaved ==
  \A i \in Indices :
    grid[i].structure # NoStructure => grid[i].terrain \in {"road", "bridge"}

\* C26: in every state each cell that carries a structure lies in a whole
\* footprint of that building: some placement of it on the grid has all of
\* its cells carrying it.
C26_WholeBuildings ==
  \A i \in Indices :
    grid[i].structure # NoStructure
      => \E at \in Indices :
           /\ getFootprint(grid[i].structure.id, at) # FootprintNull
           /\ i \in Cells(grid[i].structure.id, at)
           /\ \A j \in Cells(grid[i].structure.id, at) : grid[j].structure = grid[i].structure

\* C27: a remove action adds a refund to the resources exactly when it turns
\* a road or bridge tile to grass; a remove action that leaves the terrain of
\* its tile as it was, such as clearing a structure from a road, leaves the
\* resources as they were.
C27_RefundOnRevert ==
  [][\A idx \in Indices, bridgeMode \in BOOLEAN :
       (selected = "__road__" /\ placeRoadOrBridge(idx, bridgeMode, TRUE))
       => IF grid[idx].terrain \in {"road", "bridge"} /\ grid'[idx].terrain = "grass"
          THEN res' # res /\ \A k \in ResKeys : res'[k] >= res[k]
          ELSE res' = res]_vars

\* C28: an accepted submission takes min(letters of the word, pool) from
\* the letter pool and appends exactly that many fresh letters to the kept
\* letters of the rack; the pool is never negative; after a tick it is at
\* most maxLetters.
C28_PoolAccounting ==
  /\ [](letterPool >= 0)
  /\ [][/\ \A raw \in RawInputs :
            (~GateFails(raw) /\ submitWord(raw))
            => LET consumed == Len(Normalized[raw])
                   fresh == Len(rack') - (Len(rack) - consumed)
               IN /\ letterPool - letterPool' = Min(consumed, letterPool)
                  /\ fresh = letterPool - letterPool'
        /\ Tick => letterPool' <= maxLetters]_vars

\* C29: a tick never leaves the tier lower than it found it, and it leaves
\* tier 4 only with a population of at least 300 and the three wonder flags
\* true.
C29_TierNonDecreasing ==
  [][Tick => /\ tier' >= tier
             /\ tier' = 4 => (population >= 300 /\ wonderProgress = AllWonder)]_vars

\* the water cells of a grid of side size, as <<x, y>>
Water(tiles, size) ==
  {p \in (0 .. (size - 1)) \X (0 .. (size - 1)) :
     tiles[xyToIdx(p[1], p[2], size)].terrain = "water"}

RECURSIVE Connected(_, _)
\* the cells of wet joined to a cell of S by steps to a side neighbour in wet
Connected(S, wet) ==
  LET more == {p \in wet \ S :
                 \E q \in S : (p[1] - q[1]) * (p[1] - q[1]) + (p[2] - q[2]) * (p[2] - q[2]) = 1}
  IN IF more = {} THEN S ELSE Connected(S \cup more, wet)

\* every column holds three water tiles one above the other, and water
\* joins column 0 to column size-1
Spans(tiles, size) ==
  LET wet == Water(tiles, size)
  IN /\ \A x \in 0 .. (size - 1) :
          \E y \in 1 .. (size - 2) : {<<x, y - 1>>, <<x, y>>, <<x, y + 1>>} \subseteq wet
     /\ \E p \in Connected({q \in wet : q[1] = 0}, wet) : p[1] = size - 1

\* C30: for a map of side 3 or more, the river row is within 1 .. size-2
\* after every turn of the river loop, and once the loop is done every
\* column holds at least three vertically contiguous water tiles and the
\* water tiles join column 0 to column size-1 by side-to-side steps.
C30_RiverSpans ==
  [][gen'.size >= 3
     => /\ gen.phase = "river" => gen'.y \in 1 .. (gen'.size - 2)
        /\ gen'.phase \notin {"idle", "river"} => Spans(gen'.m.tiles, gen'.size)]_vars

\* a map of side 6 was returned whose river is not a straight band: two
\* neighbouring columns differ in their water rows, and land is left
C30_Witness ==
  /\ gen.phase = "returned"
  /\ gen.size = 6
  /\ LET wet == Water(gen.m.tiles, 6)
     IN /\ \E x \in 0 .. 4 : {p[2] : p \in {q \in wet : q[1] = x}} # {p[2] : p \in {q \in wet : q[1] = x + 1}}
        /\ wet # (0 .. 5) \X (0 .. 5)

====
